---- MODULE Spec2Model ----
(***************************************************************************)
(* Plugin ("program") loading and the tabbed world container of            *)
(* amulet_map_editor/programs/__init__.py.                                 *)
(*                                                                         *)
(* Python lists are modelled as sequences; a Python list index i           *)
(* (0-based, negative values counting from the end) is kept as the         *)
(* integer the code holds and resolved by PyValid / PyPos.                 *)
(* A plugin instance is named by the registry position of its class.       *)
(* Spec follows the loader and one WorldManagerUI at a time; LoaderSpec    *)
(* follows the loader alone over every shape of programs directory.        *)
(***************************************************************************)
EXTENDS Integers, Sequences, FiniteSets, TLC

\* ------------------------------------------------------------- bounds
\* Most modules found in the programs directory.
MaxModules == 2
\* Most modules in the directory of the specification with the tab container.
MaxPrograms == 1
\* Most close() calls made on one WorldManagerUI.
MaxCloses == 2
\* Most activations of a 'Close World' control on one WorldManagerUI.
MaxCalls == 1
\* Most calls of load_extensions().
MaxLoads == 2

\* ------------------------------------------------ modules of the directory
\* What `export['ui']` can be: a class deriving from BaseWorldProgram and
\* wx.Window, a class deriving from only one of them, or not a class at all
\* (issubclass raises TypeError on it).
UiValues == {"ProgramWindow", "ProgramOnly", "WindowOnly", "NotAClass"}

IsClass(u) == u # "NotAClass"

IsProgram(u) == u \in {"ProgramWindow", "ProgramOnly"}

IsWindow(u) == u \in {"ProgramWindow", "WindowOnly"}

ExportKeys == {"v", "name", "ui"}

ModuleNames == {"Convert"}

NoExport == [hasExport |-> FALSE, keys |-> {}, name |-> "-", ui |-> "-"]

\* A module with an `export` mapping: the keys it carries, and the values of
\* `name` and `ui` when present ("-" when absent).
ExportOf(keys, name, ui) ==
    [hasExport |-> TRUE, keys |-> keys,
     name |-> IF "name" \in keys THEN name ELSE "-",
     ui |-> IF "ui" \in keys THEN ui ELSE "-"]

\* Every shape of module the loader can meet.
ModuleKinds ==
    {NoExport} \cup
    {ExportOf(k, n, u) : k \in SUBSET ExportKeys, n \in ModuleNames, u \in UiValues}

\* The shape of operations/fill.py: v and name (and operation keys), no ui.
FillModule == ExportOf({"v", "name"}, "Convert", "-")

\* The modules of the specification with the tab container: a complete
\* program, a program with neither name nor version, an operation module, a
\* module without export, one whose ui is a window but no program, and one
\* whose ui is not a class.
ProgramKinds ==
    {ExportOf(ExportKeys, "Convert", "ProgramWindow"),
     ExportOf({"ui"}, "-", "ProgramWindow"),
     FillModule,
     NoExport,
     ExportOf(ExportKeys, "Convert", "WindowOnly"),
     ExportOf(ExportKeys, "Convert", "NotAClass")}

SeqsUpTo(S, n) == UNION {[1..k -> S] : k \in 0..n}

\* ------------------------------------------------------------- state
VARIABLES
    directory,        \* the modules pkgutil.iter_modules yields, in order
    _extensions,      \* module-level registry: <<[name, cls]>>
    load_calls,       \* calls of load_extensions() so far
    raised,           \* exception that left the last operation ("none")
    ui,               \* "none" | "constructed" | "failed": the WorldManagerUI
    ctor_log,         \* what the last failing constructor did, in order
    ctor_failed,      \* registry positions whose constructor raised
    world,            \* "unset" | "open": self.world
    world_closes,     \* calls of self.world.close()
    self_extensions,  \* self._extensions: plugin instances (registry positions)
    pages,            \* the notebook's pages, in order (registry positions)
    selection,        \* wx.Notebook.GetSelection(): 0-based, -1 without pages
    _last_extension,  \* self._last_extension
    bound,            \* EVT_NOTEBOOK_PAGE_CHANGED is bound to _page_change
    enabled,          \* plugin instances whose last lifecycle call is enable()
    ext_closes,       \* close() calls per plugin instance
    close_self_calls, \* invocations of close_self_callback
    activations,      \* activations of a 'Close World' control by the user
    menubar           \* the menu mapping last returned by menu()

vars == <<directory, _extensions, load_calls, raised, ui, ctor_log,
          ctor_failed, world, world_closes,
          self_extensions, pages, selection, _last_extension, bound, enabled,
          ext_closes, close_self_calls, activations, menubar>>

uiVars == <<ui, ctor_log, ctor_failed, world, world_closes, self_extensions, pages,
            selection, _last_extension, bound, enabled, ext_closes,
            close_self_calls, activations, menubar>>

\* A registry entry is <<name, class>>; a class is named by the module that
\* defines it: module i of the directory, or this package itself, which
\* defines AboutExtension (lines 155-187).
AboutExtension == 0

\* _fixed_extensions after the module body ran (line 190).
_fixed_extensions == <<[name |-> "About", cls |-> AboutExtension]>>

\* ------------------------------------------------------- load_extensions
\* Line 46 without its tests: every export is registered.
AcceptsExport_Unchecked(m) == "append"

\* Line 46: the test a module's export must pass to be registered.
\* "raise" when issubclass is handed something that is not a class.
AcceptsExport(m) ==
    IF "ui" \notin m.keys THEN "skip"
    ELSE IF ~IsClass(m.ui) THEN "raise"
    ELSE IF IsProgram(m.ui) /\ IsWindow(m.ui) THEN "append"
    ELSE "skip"

\* Line 47: the registry entry of module i of the directory.
EntryOf(m, i) ==
    [name |-> IF "name" \in m.keys THEN m.name ELSE "missingno", cls |-> i]

\* Lines 40-47: the scan of the directory from module i on.
RECURSIVE ScanModules(_, _, _)
ScanModules(reg, dir, i) ==
    IF i > Len(dir) THEN [reg |-> reg, exc |-> "none"]
    ELSE LET m == dir[i] IN
         IF ~m.hasExport THEN ScanModules(reg, dir, i + 1)
         ELSE CASE AcceptsExport(m) = "raise" -> [reg |-> reg, exc |-> "TypeError"]
                [] AcceptsExport(m) = "append" ->
                       ScanModules(Append(reg, EntryOf(m, i)), dir, i + 1)
                [] OTHER -> ScanModules(reg, dir, i + 1)

\* Lines 37-47 without the `if not _extensions` guard of line 38.
load_extensions_Unguarded(reg, dir) ==
    ScanModules(reg \o _fixed_extensions, dir, 1)

\* Lines 37-47: load_extensions() on registry reg and the directory dir.
load_extensions(reg, dir) ==
    IF reg = <<>> THEN ScanModules(reg \o _fixed_extensions, dir, 1)
    ELSE [reg |-> reg, exc |-> "none"]

\* --------------------------------------------------------- Python lists
\* Whether lst[i] exists (otherwise IndexError).
PyValid(lst, i) == -Len(lst) <= i /\ i < Len(lst)

\* The position in the sequence of Python index i (valid).
PyPos(lst, i) == IF i >= 0 THEN i + 1 ELSE Len(lst) + i + 1

Range(s) == {s[k] : k \in DOMAIN s}

\* ------------------------------------------------ WorldManagerUI.__init__
\* What constructing and adding one plugin can do (lines 94-96): both
\* succeed, the constructor raises, or AddPage raises.
CtorOutcomes == {"ok", "ctor_raises", "addpage_raises"}

LoadOutcomes == {"ok", "LoaderNoneMatched", "OtherError"}

\* Lines 93-100: one pass of the loop body, for registry position i.
\* acc: the instance list, the pages, the selection and the `select` flag.
LoadOne(acc, i, outcome) ==
    CASE outcome = "ctor_raises" -> [acc EXCEPT !.failed = @ \cup {i}]
      [] outcome = "addpage_raises" -> [acc EXCEPT !.exts = Append(@, i)]
      [] OTHER ->
           [exts |-> Append(acc.exts, i),
            pages |-> Append(acc.pages, i),
            selection |-> IF acc.select THEN Len(acc.pages) ELSE acc.selection,
            select |-> FALSE,
            failed |-> acc.failed]

\* Lines 91-100: the loop over the registry from position i on.
RECURSIVE LoadFrom(_, _, _, _)
LoadFrom(reg, outcomes, i, acc) ==
    IF i > Len(reg) THEN acc
    ELSE LoadFrom(reg, outcomes, i + 1, LoadOne(acc, i, outcomes[i]))

\* Lines 75-76 and 91: the state the loop starts from.
NoInstances ==
    [exts |-> <<>>, pages |-> <<>>, selection |-> -1, select |-> TRUE,
     failed |-> {}]

EmptyDict == [x \in {} |-> x]

\* The fields of a WorldManagerUI whose constructor has just been entered
\* (lines 66-68): a notebook without pages, nothing else set.
FreshObject ==
    /\ world_closes' = 0
    /\ enabled' = {}
    /\ close_self_calls' = 0
    /\ activations' = 0
    /\ menubar' = EmptyDict

\* Lines 69-73 without line 72: the error is raised again and the notebook
\* is left undestroyed.
InitLoadFailed_NoDestroy(e) ==
    /\ ui' = "failed"
    /\ raised' = e
    /\ FreshObject
    /\ ctor_log' = <<"raise">>
    /\ world' = "unset"
    /\ ctor_failed' = {}
    /\ self_extensions' = <<>>
    /\ pages' = <<>>
    /\ selection' = -1
    /\ _last_extension' = -1
    /\ bound' = FALSE
    /\ ext_closes' = EmptyDict
    /\ UNCHANGED <<_extensions, load_calls>>

\* Lines 69-73: load_world raised e. LoaderNoneMatched destroys the notebook
\* and is raised again; any other exception is not caught.
InitLoadFailed(e) ==
    /\ ui' = "failed"
    /\ raised' = e
    /\ FreshObject
    /\ ctor_log' = IF e = "LoaderNoneMatched" THEN <<"Destroy", "raise">>
                   ELSE <<"raise">>
    /\ world' = "unset"
    /\ ctor_failed' = {}
    /\ self_extensions' = <<>>
    /\ pages' = <<>>
    /\ selection' = -1
    /\ _last_extension' = -1
    /\ bound' = FALSE
    /\ ext_closes' = EmptyDict
    /\ UNCHANGED <<_extensions, load_calls>>

\* Lines 74-78: the world is loaded; _load_extensions, then Bind.
InitLoaded(outcomes) ==
    LET r == load_extensions(_extensions, directory)
        acc == LoadFrom(r.reg, outcomes, 1, NoInstances)
    IN /\ load_calls < MaxLoads
       /\ load_calls' = load_calls + 1
       /\ _extensions' = r.reg
       /\ world' = "open"
       /\ FreshObject
       /\ _last_extension' = -1
       /\ IF r.exc # "none"
          THEN /\ ui' = "failed"
               /\ ctor_log' = <<"raise">>
               /\ ctor_failed' = {}
               /\ raised' = r.exc
               /\ self_extensions' = <<>>
               /\ pages' = <<>>
               /\ selection' = -1
               /\ bound' = FALSE
               /\ ext_closes' = EmptyDict
          ELSE /\ ui' = "constructed"
               /\ ctor_log' = <<>>
               /\ ctor_failed' = acc.failed
               /\ raised' = "none"
               /\ self_extensions' = acc.exts
               /\ pages' = acc.pages
               /\ selection' = acc.selection
               /\ bound' = TRUE
               /\ ext_closes' = [e \in Range(acc.exts) |-> 0]

\* Lines 65-78: WorldManagerUI(parent, path, close_self_callback). A new
\* container is built when there is none or the last one's world was closed.
WorldManagerUI_init ==
    /\ ui # "constructed" \/ world_closes > 0
    /\ UNCHANGED directory
    /\ \E loaded \in LoadOutcomes :
         IF loaded # "ok" THEN InitLoadFailed(loaded)
         ELSE \E outcomes \in
                  [1..Len(load_extensions(_extensions, directory).reg) -> CtorOutcomes] :
                  InitLoaded(outcomes)

\* Lines 37-47 called on their own.
load_extensions_call ==
    LET r == load_extensions(_extensions, directory)
    IN /\ load_calls < MaxLoads
       /\ load_calls' = load_calls + 1
       /\ _extensions' = r.reg
       /\ raised' = r.exc
       /\ UNCHANGED <<directory, uiVars>>

\* ------------------------------------------------------------- menu
\* dict.setdefault(k, v): the mapping afterwards.
SetDefault(d, k, v) == IF k \in DOMAIN d THEN d ELSE (k :> v) @@ d

\* Line 85: the mapping after the three nested setdefault calls.
WithCloseWorld(menu) ==
    LET m1 == SetDefault(menu, "&File", EmptyDict)
        f1 == SetDefault(m1["&File"], "exit", EmptyDict)
        e1 == SetDefault(f1["exit"], "Close World", "close_world_lambda")
    IN [m1 EXCEPT !["&File"] = [f1 EXCEPT !["exit"] = e1]]

\* Line 152 (BaseWorldProgram.menu, inherited by AboutExtension).
BaseWorldProgram_menu(menu) == menu

\* Menus the frame hands to menu(): empty, a '&File' menu without entries,
\* one with another 'exit' entry and a '&Help' menu, and one whose
\* 'Close World' slot is already taken.
InputMenus ==
    {EmptyDict,
     "&File" :> EmptyDict,
     ("&File" :> ("exit" :> ("Quit" :> "quit_handler")))
        @@ ("&Help" :> ("help" :> ("Docs" :> "docs_handler"))),
     "&File" :> ("exit" :> ("Close World" :> "other_handler"))}

\* Lines 84-86: menu(menu). The frame installs what is returned.
WorldManagerUI_menu(menu) ==
    /\ ui = "constructed"
    /\ IF PyValid(self_extensions, selection)
       THEN /\ menubar' = BaseWorldProgram_menu(WithCloseWorld(menu))
            /\ raised' = "none"
       ELSE /\ raised' = "IndexError"
            /\ UNCHANGED menubar
    /\ UNCHANGED <<directory, _extensions, load_calls, ui, ctor_log, ctor_failed, world, world_closes,
                   self_extensions, pages, selection, _last_extension, bound,
                   enabled, ext_closes, close_self_calls, activations>>

\* The action stored under '&File' / 'exit' / 'Close World' of the menubar.
CloseWorldEntry ==
    IF "&File" \in DOMAIN menubar
       /\ "exit" \in DOMAIN menubar["&File"]
       /\ "Close World" \in DOMAIN menubar["&File"]["exit"]
    THEN menubar["&File"]["exit"]["Close World"]
    ELSE "absent"

\* Callback invocations made by `lambda evt: self._close_self_callback`
\* (line 85): the attribute is read and returned, not called.
LambdaCalls == 0

\* Callback invocations made by _close_world (line 187).
ButtonCalls == 1

\* The user picks the 'Close World' menu entry that menu() installed.
CloseWorldMenuItem ==
    /\ ui = "constructed"
    /\ CloseWorldEntry = "close_world_lambda"
    /\ activations < MaxCalls
    /\ activations' = activations + 1
    /\ close_self_calls' = close_self_calls + LambdaCalls
    /\ raised' = "none"
    /\ UNCHANGED <<directory, _extensions, load_calls, ui, ctor_log, ctor_failed, world, world_closes,
                   self_extensions, pages, selection, _last_extension, bound,
                   enabled, ext_closes, menubar>>

\* Lines 164-165, 186-187: the user presses the About tab's button. The
\* About entry is registry position 1; its panel is the selected page.
AboutExtension_close_world ==
    /\ ui = "constructed"
    /\ selection >= 0 /\ selection < Len(pages)
    /\ _extensions[pages[selection + 1]].cls = AboutExtension
    /\ activations < MaxCalls
    /\ activations' = activations + 1
    /\ close_self_calls' = close_self_calls + ButtonCalls
    /\ raised' = "none"
    /\ UNCHANGED <<directory, _extensions, load_calls, ui, ctor_log, ctor_failed, world, world_closes,
                   self_extensions, pages, selection, _last_extension, bound,
                   enabled, ext_closes, menubar>>

\* ------------------------------------------------------- lifecycle
\* Lines 106-111: close().
WorldManagerUI_close ==
    /\ ui = "constructed"
    /\ world_closes < MaxCloses
    /\ ext_closes' = [e \in DOMAIN ext_closes |-> ext_closes[e] + 1]
    /\ world_closes' = world_closes + 1
    /\ raised' = "none"
    /\ UNCHANGED <<directory, _extensions, load_calls, ui, ctor_log, ctor_failed, world,
                   self_extensions, pages, selection, _last_extension, bound,
                   enabled, close_self_calls, activations, menubar>>

\* Lines 124-126: enable(). GetGrandParent().create_menu() is the frame's
\* method, outside this package; it sets none of the fields kept here.
WorldManagerUI_enable ==
    /\ ui = "constructed"
    /\ IF PyValid(self_extensions, selection)
       THEN /\ enabled' = enabled \cup
                    {self_extensions[PyPos(self_extensions, selection)]}
            /\ raised' = "none"
       ELSE /\ raised' = "IndexError"
            /\ UNCHANGED enabled
    /\ UNCHANGED <<directory, _extensions, load_calls, ui, ctor_log, ctor_failed, world, world_closes,
                   self_extensions, pages, selection, _last_extension, bound,
                   ext_closes, close_self_calls, activations, menubar>>

\* Lines 121-122: disable().
WorldManagerUI_disable ==
    /\ ui = "constructed"
    /\ IF PyValid(self_extensions, selection)
       THEN /\ enabled' = enabled \
                    {self_extensions[PyPos(self_extensions, selection)]}
            /\ raised' = "none"
       ELSE /\ raised' = "IndexError"
            /\ UNCHANGED enabled
    /\ UNCHANGED <<directory, _extensions, load_calls, ui, ctor_log, ctor_failed, world, world_closes,
                   self_extensions, pages, selection, _last_extension, bound,
                   ext_closes, close_self_calls, activations, menubar>>

\* Line 116: the index the handler disables.
DisableIndex == _last_extension

\* Lines 113-119: the user selects page j (another page than the current
\* one); the notebook changes its selection and fires
\* EVT_NOTEBOOK_PAGE_CHANGED, which runs _page_change. An IndexError on
\* line 116 or 117 ends the handler there.
_page_change(j) ==
    /\ ui = "constructed"
    /\ bound
    /\ j # selection
    /\ selection' = j
    /\ IF j = _last_extension
       THEN /\ raised' = "none"
            /\ UNCHANGED <<enabled, _last_extension>>
       ELSE IF ~PyValid(self_extensions, DisableIndex)
       THEN /\ raised' = "IndexError"
            /\ UNCHANGED <<enabled, _last_extension>>
       ELSE LET off == self_extensions[PyPos(self_extensions, DisableIndex)]
            IN IF ~PyValid(self_extensions, j)
               THEN /\ raised' = "IndexError"
                    /\ enabled' = enabled \ {off}
                    /\ UNCHANGED _last_extension
               ELSE /\ raised' = "none"
                    /\ enabled' = (enabled \ {off}) \cup
                            {self_extensions[PyPos(self_extensions, j)]}
                    /\ _last_extension' = j
    /\ UNCHANGED <<directory, _extensions, load_calls, ui, ctor_log, ctor_failed, world, world_closes,
                   self_extensions, pages, bound, ext_closes, close_self_calls,
                   activations, menubar>>

\* ------------------------------------------------------- specifications
\* The state after the module was imported: nothing loaded, no container.
NoContainer ==
    /\ _extensions = <<>>
    /\ load_calls = 0
    /\ raised = "none"
    /\ ui = "none"
    /\ ctor_log = <<>>
    /\ ctor_failed = {}
    /\ world = "unset"
    /\ world_closes = 0
    /\ self_extensions = <<>>
    /\ pages = <<>>
    /\ selection = -1
    /\ _last_extension = -1
    /\ bound = FALSE
    /\ enabled = {}
    /\ ext_closes = EmptyDict
    /\ close_self_calls = 0
    /\ activations = 0
    /\ menubar = EmptyDict

Init ==
    /\ directory \in SeqsUpTo(ProgramKinds, MaxPrograms)
    /\ NoContainer

Next ==
    \/ load_extensions_call
    \/ WorldManagerUI_init
    \/ \E m \in InputMenus : WorldManagerUI_menu(m)
    \/ CloseWorldMenuItem
    \/ AboutExtension_close_world
    \/ WorldManagerUI_close
    \/ WorldManagerUI_enable
    \/ WorldManagerUI_disable
    \/ \E j \in 0..(Len(pages) - 1) : _page_change(j)

Spec == Init /\ [][Next]_vars

\* The loader alone, over every shape of directory.
InitLoader ==
    /\ directory \in SeqsUpTo(ModuleKinds, MaxModules)
    /\ NoContainer

NextLoader == load_extensions_call

LoaderSpec == InitLoader /\ [][NextLoader]_vars

\* ------------------------------------------------------------- claims
\* The module registry entry k was discovered in.
ModuleOf(k) == directory[_extensions[k].cls]

Discovered == {k \in DOMAIN _extensions : _extensions[k].cls # AboutExtension}

\* The modules line 46 accepts: export with a ui that is a class deriving
\* from BaseWorldProgram and from wx.Window.
ValidProgram(m) ==
    m.hasExport /\ "ui" \in m.keys /\ m.ui = "ProgramWindow"

\* C1 as stated: a discovered module is in the registry only if its export
\* carries every required key, v, name and ui.
C1_RequiredKeysOnly ==
    \A k \in Discovered : ModuleOf(k).hasExport /\ ExportKeys \subseteq ModuleOf(k).keys

\* C1 as amended: a discovered module is in the registry only if it has an
\* export whose ui is a class deriving from BaseWorldProgram and wx.Window
\* (v and name are not asked for); a module without export or without ui is
\* in no registry entry, and every tab is an instance of a registry entry.
C1_RegisteredOnlyWithUi ==
    /\ \A k \in Discovered : ValidProgram(ModuleOf(k))
    /\ Range(pages) \subseteq DOMAIN _extensions
    /\ Range(self_extensions) \subseteq DOMAIN _extensions

\* A container was built over a directory holding a module without ui.
C1_Witness ==
    /\ ui = "constructed"
    /\ pages # <<>>
    /\ \E i \in DOMAIN directory : "ui" \notin directory[i].keys

\* C2 as stated: load_extensions returns normally whatever the modules are,
\* and every valid module of the directory is registered.
C2_LoaderNeverFails ==
    /\ raised # "TypeError"
    /\ _extensions # <<>> =>
         \A i \in DOMAIN directory :
            ValidProgram(directory[i]) => \E k \in Discovered : _extensions[k].cls = i

\* C6 as stated: no two entries of the registry have the same name.
C6_UniqueNames ==
    \A a, b \in DOMAIN _extensions :
       a # b => _extensions[a].name # _extensions[b].name

\* C10: once populated the registry never changes again, whoever calls
\* load_extensions; it starts with the fixed About entry and holds no class
\* twice.
C10_RegistryWellFormed ==
    _extensions # <<>> =>
       /\ _extensions[1] = _fixed_extensions[1]
       /\ \A a, b \in DOMAIN _extensions :
             a # b => _extensions[a].cls # _extensions[b].cls

C10_RegistryFrozen == _extensions # <<>> => _extensions' = _extensions

C10_DiscoveryIdempotent ==
    [](C10_RegistryWellFormed) /\ [][C10_RegistryFrozen]_vars

\* A second container was built, from a registry with a discovered program.
C10_Witness ==
    /\ load_calls >= 2
    /\ ui = "constructed"
    /\ Discovered # {}

\* The constructor ended because no loader matched.
NoLoaderMatched == ui = "failed" /\ raised = "LoaderNoneMatched"

\* C5: when load_world raises LoaderNoneMatched the notebook is destroyed
\* and then the error is raised to the caller; the registry is not touched
\* (no discovery ran), there is no instance, no page, no handler bound and
\* no world handle.
C5_Released ==
    NoLoaderMatched =>
       /\ ctor_log = <<"Destroy", "raise">>
       /\ self_extensions = <<>>
       /\ pages = <<>>
       /\ ~bound
       /\ world = "unset"

C5_NoDiscovery ==
    raised' = "LoaderNoneMatched" => UNCHANGED <<_extensions, load_calls>>

C5_LoadFailureReleases == [](C5_Released) /\ [][C5_NoDiscovery]_vars

\* The constructor failed on LoaderNoneMatched after an earlier container
\* had populated the registry.
C5_Witness == NoLoaderMatched /\ _extensions # <<>>

Increasing(lst) == \A a, b \in DOMAIN lst : a < b => lst[a] < lst[b]

\* What C3 says of a container just built from registry reg, given the
\* positions whose constructor raised.
C3_Built(reg, failed, exts, pgs, sel) ==
    /\ \A r \in DOMAIN reg :
          IF r \in failed
          THEN r \notin Range(exts) /\ r \notin Range(pgs)
          ELSE r \in Range(exts) /\ r \in Range(pgs)
    /\ Increasing(exts) /\ Increasing(pgs)
    /\ pgs # <<>> => sel = 0

\* C3 as stated: the constructor returns although plugin constructors
\* raised; those plugins are in neither the instance list nor the pages, and
\* every other registered plugin is an instance and a page, in registry
\* order, the first page selected.
C3_FailedCtorExcluded ==
    [][(WorldManagerUI_init /\ ui' = "constructed") =>
          C3_Built(_extensions', ctor_failed', self_extensions', pages', selection')]_vars

\* C4 as stated: once close() has been part of the operations, every plugin
\* instance and the world have been closed exactly once.
C4_ClosedExactlyOnce ==
    (ui = "constructed" /\ world_closes >= 1) =>
       /\ world_closes = 1
       /\ \A e \in DOMAIN ext_closes : ext_closes[e] = 1

\* The instance the container holds for page index i (the alignment of the
\* instance list with the pages is C8's subject).
InstanceAt(i) ==
    IF 0 <= i /\ i < Len(self_extensions) THEN {self_extensions[i + 1]} ELSE {}

\* C7 as stated: a page change from page i to page j disables the plugin
\* of page i and enables the plugin of page j, after which the plugin of
\* page j is the only one enabled.
C7_PageChangeSwitches ==
    [][\A j \in 0..(Len(pages) - 1) :
          _page_change(j) =>
             /\ InstanceAt(selection) \cap enabled' = {}
             /\ InstanceAt(j) \subseteq enabled'
             /\ enabled' \subseteq InstanceAt(j)]_vars

\* Index i names an instance, and that instance is the plugin on page i.
IndexesShownPlugin(i) ==
    /\ 0 <= i /\ i < Len(self_extensions) /\ i < Len(pages)
    /\ self_extensions[i + 1] = pages[i + 1]

\* C8 as stated: the instance list equals the page list, the selection
\* indexes an instance shown on that page, and so does the remembered last
\* selection whenever a page change can read it.
C8_ListAlignedWithPages ==
    ui = "constructed" =>
       /\ self_extensions = pages
       /\ IndexesShownPlugin(selection)
       /\ Len(pages) >= 2 => IndexesShownPlugin(_last_extension)

\* C9 as stated: every activation of a 'Close World' control, the menu
\* entry or the About button, has invoked the close-self callback once.
C9_EachActivationCallsBack ==
    ui = "constructed" => close_self_calls = activations

====
